---------------------------- MODULE Spec2Model ----------------------------
(***************************************************************************)
(* Model of src/app.py: the "Executar Analise" button of the Streamlit     *)
(* page and the function processar_dados_streamlit it calls.               *)
(*                                                                         *)
(* A DataFrame is a record [cols, rows]: cols is the set of its column     *)
(* names other than the two key columns, rows the sequence of its rows.    *)
(* A budget row is [wbs, fy, cells]: wbs is its 'WBS Element', fy its      *)
(* 'Fiscal Year', cells maps every name of cols to a cell.  A cell is <<>> *)
(* (NaN / pd.NA) or <<v>>, v a number in units of 1/Escala.  An            *)
(* expenditure row is [fy, wbs, period, valor], valor in the same units.   *)
(* An uploaded file is <<df>>; a missing upload (None) is <<>>.            *)
(***************************************************************************)
EXTENDS Integers, Sequences, FiniteSets, TLC

VARIABLES orcamento_file, gastos_file, ano_val, p_ini_val, p_fim_val,
          pc, df_resultado, gastos_agrupados, periodo_num,
          colunas_periodo, df_final, mensagem

vars == <<orcamento_file, gastos_file, ano_val, p_ini_val, p_fim_val,
          pc, df_resultado, gastos_agrupados, periodo_num,
          colunas_periodo, df_final, mensagem>>

---------------------------------------------------------------------------
(* Bounds of the model *)

\* most rows of an enumerated budget table
MaxLinhas == 2

\* most rows of an enumerated expenditure table
MaxGastos == 2

\* numbers are fixed-point, in units of 1/Escala
Escala == 4

(* Constants of the program *)

AnoPadrao == 2026

PeriodoMin == 1

PeriodoMax == 12

---------------------------------------------------------------------------
(* Cells *)

Null == <<>>

Val(v) == <<v>>

None == <<>>

\* a NaN cell counts as 0 in DataFrame.sum and in a groupby sum (skipna)
Skipna(c) == IF c = Null THEN 0 ELSE c[1]

\* Series.round(0): to the nearest integer, a tie to the even one
RoundHalfEven(x) ==
    LET q == x \div Escala
        r == x % Escala
    IN  IF 2 * r < Escala THEN q * Escala
        ELSE IF 2 * r > Escala THEN (q + 1) * Escala
        ELSE IF q % 2 = 0 THEN q * Escala ELSE (q + 1) * Escala

---------------------------------------------------------------------------
(* Column names as Python strings: sequences of characters *)

Chars(name) ==
    CASE name = "Period 1"   -> <<"P","e","r","i","o","d"," ","1">>
      [] name = "Period 2"   -> <<"P","e","r","i","o","d"," ","2">>
      [] name = "Period 10"  -> <<"P","e","r","i","o","d"," ","1","0">>
      [] name = "Period 3\n" -> <<"P","e","r","i","o","d"," ","3","\n">>
      [] name = "Period 1x"  -> <<"P","e","r","i","o","d"," ","1","x">>
      [] name = "period 1"   -> <<"p","e","r","i","o","d"," ","1">>
      [] name = "Total"      -> <<"T","o","t","a","l">>
      [] name = "Unnamed: 0" -> <<"U","n","n","a","m","e","d",":"," ","0">>

\* ord(ch)
Ord(ch) ==
    CASE ch = "\n" -> 10  [] ch = " " -> 32
      [] ch = "0" -> 48   [] ch = "1" -> 49  [] ch = "2" -> 50
      [] ch = "3" -> 51   [] ch = "4" -> 52  [] ch = "5" -> 53
      [] ch = "6" -> 54   [] ch = "7" -> 55  [] ch = "8" -> 56
      [] ch = "9" -> 57   [] ch = ":" -> 58
      [] ch = "P" -> 80   [] ch = "T" -> 84  [] ch = "U" -> 85
      [] ch = "a" -> 97   [] ch = "d" -> 100 [] ch = "e" -> 101
      [] ch = "i" -> 105  [] ch = "l" -> 108 [] ch = "m" -> 109
      [] ch = "n" -> 110  [] ch = "o" -> 111 [] ch = "p" -> 112
      [] ch = "r" -> 114  [] ch = "t" -> 116 [] ch = "x" -> 120

IsDigit(ch) == Ord(ch) >= 48 /\ Ord(ch) <= 57

DigitChar(d) == <<"0","1","2","3","4","5","6","7","8","9">>[d + 1]

\* str(n) of a non-negative integer
RECURSIVE IntToChars(_)
IntToChars(n) ==
    IF n < 10 THEN <<DigitChar(n)>>
    ELSE Append(IntToChars(n \div 10), DigitChar(n % 10))

\* the number a sequence of digits writes: the numeric suffix of a name
RECURSIVE CharsToInt(_)
CharsToInt(s) ==
    IF s = <<>> THEN 0
    ELSE 10 * CharsToInt(SubSeq(s, 1, Len(s) - 1)) + (Ord(s[Len(s)]) - 48)

PeriodPrefix == <<"P","e","r","i","o","d"," ">>

\* f'Period {periodo_num}'
PeriodColName(p) == PeriodPrefix \o IntToChars(p)

\* str.startswith
StartsWith(s, prefix) ==
    Len(s) >= Len(prefix) /\ SubSeq(s, 1, Len(prefix)) = prefix

\* columns.str.startswith('Unnamed')
IsUnnamed(name) == StartsWith(Chars(name), <<"U","n","n","a","m","e","d">>)

\* the digits of a name re.match accepts: $ also matches before a last newline
DigitsOf(s) ==
    LET body == SubSeq(s, Len(PeriodPrefix) + 1, Len(s))
    IN  IF body # <<>> /\ body[Len(body)] = "\n"
        THEN SubSeq(body, 1, Len(body) - 1) ELSE body

\* re.match(r'^Period \d+$', col)
MatchPeriod(name) ==
    LET s == Chars(name)
    IN  /\ StartsWith(s, PeriodPrefix)
        /\ DigitsOf(s) # <<>>
        /\ \A i \in 1..Len(DigitsOf(s)) : IsDigit(DigitsOf(s)[i])

\* Python's < on two str: by the first differing code point, a prefix first
RECURSIVE LexLess(_, _)
LexLess(a, b) ==
    IF b = <<>> THEN FALSE
    ELSE IF a = <<>> THEN TRUE
    ELSE IF Ord(Head(a)) # Ord(Head(b)) THEN Ord(Head(a)) < Ord(Head(b))
    ELSE LexLess(Tail(a), Tail(b))

StrLess(x, y) == LexLess(Chars(x), Chars(y))

\* a mutant of Sorted: by the numeric suffix first
RECURSIVE SortedNumerico(_)
SortedNumerico(names) ==
    IF names = {} THEN <<>>
    ELSE LET key(x) == CharsToInt(DigitsOf(Chars(x)))
             m == CHOOSE x \in names : \A y \in names \ {x} :
                     key(x) < key(y) \/ (key(x) = key(y) /\ StrLess(x, y))
         IN  <<m>> \o SortedNumerico(names \ {m})

\* sorted(list of str)
RECURSIVE Sorted(_)
Sorted(names) ==
    IF names = {} THEN <<>>
    ELSE LET m == CHOOSE x \in names : \A y \in names \ {x} : StrLess(x, y)
         IN  <<m>> \o Sorted(names \ {m})

\* sorted([col for col in df_resultado.columns if re.match(...)])
ColunasPeriodo(df) == Sorted({c \in df.cols : MatchPeriod(c)})

---------------------------------------------------------------------------
(* Etapa 1: aggregation of the expenditures and the per-period merge *)

\* Series.sum() of the valor field of the rows at the indexes idx
RECURSIVE SomaValores(_, _)
SomaValores(rows, idx) ==
    IF idx = {} THEN 0
    ELSE LET i == CHOOSE j \in idx : TRUE
         IN  rows[i].valor + SomaValores(rows, idx \ {i})

\* a mutant of GroupBySum: each group keeps its first row's value only
GroupByPrimeiro(rows) ==
    { [fy |-> rows[i].fy, wbs |-> rows[i].wbs, period |-> rows[i].period,
       valor |-> rows[i].valor] :
      i \in { k \in 1..Len(rows) : \A j \in 1..(k - 1) :
                 ~(/\ rows[j].fy = rows[k].fy /\ rows[j].wbs = rows[k].wbs
                   /\ rows[j].period = rows[k].period) } }

\* df_gastos.groupby(['Fiscal Year','WBS Element','Period'])[valor].sum()
GroupBySum(rows) ==
    { [fy |-> rows[i].fy, wbs |-> rows[i].wbs, period |-> rows[i].period,
       valor |-> SomaValores(rows,
                    { j \in 1..Len(rows) : /\ rows[j].fy = rows[i].fy
                                           /\ rows[j].wbs = rows[i].wbs
                                           /\ rows[j].period = rows[i].period })] :
      i \in 1..Len(rows) }

\* a mutant of GastosDoPeriodo: the filter on the period is forgotten
GastosDoAno(agrupados, p, ano) == { g \in agrupados : g.fy = ano }

\* gastos_agrupados[(Period == periodo_num) & (Fiscal Year == ano)]
GastosDoPeriodo(agrupados, p, ano) ==
    { g \in agrupados : g.period = p /\ g.fy = ano }

coluna_gasto_temp == "gasto_temp_para_atualizar"

\* the row with column c set to cell v (the column is added when absent)
WithCell(row, c, v) ==
    [row EXCEPT !.cells = [k \in (DOMAIN row.cells) \cup {c} |->
                              IF k = c THEN v ELSE row.cells[k]]]

\* the row without column c
WithoutCell(row, c) ==
    [row EXCEPT !.cells = [k \in (DOMAIN row.cells) \ {c} |-> row.cells[k]]]

\* the rows of a set, one after the other
RECURSIVE SetToSeq(_)
SetToSeq(S) ==
    IF S = {} THEN <<>>
    ELSE LET x == CHOOSE y \in S : TRUE IN <<x>> \o SetToSeq(S \ {x})

\* the rows a left join gives for one left row: one per matching right row,
\* or one with a null amount when none matches
JoinRow(row, right) ==
    LET m == SetToSeq({ g \in right : g.wbs = row.wbs /\ g.fy = row.fy })
    IN  IF m = <<>> THEN <<WithCell(row, coluna_gasto_temp, Null)>>
        ELSE [i \in 1..Len(m) |-> WithCell(row, coluna_gasto_temp, Val(m[i].valor))]

RECURSIVE JoinRows(_, _)
JoinRows(rows, right) ==
    IF rows = <<>> THEN <<>>
    ELSE JoinRow(Head(rows), right) \o JoinRows(Tail(rows), right)

\* pd.merge(df_resultado, gastos_do_periodo[...], on=[WBS, FY], how='left')
Merge(df, right) ==
    [cols |-> df.cols \cup {coluna_gasto_temp}, rows |-> JoinRows(df.rows, right)]

\* df_resultado[coluna_gasto_temp] = pd.NA
ColunaNA(df) ==
    [cols |-> df.cols \cup {coluna_gasto_temp},
     rows |-> [i \in 1..Len(df.rows) |-> WithCell(df.rows[i], coluna_gasto_temp, Null)]]

\* a mutant of CondicaoAno: every row is selected
CondicaoTodos(row, ano) == TRUE

\* condicao_ano = df_resultado['Fiscal Year'] == ano
CondicaoAno(row, ano) == row.fy = ano

\* a mutant of ValoresAtualizados: fillna(0) is left out
SemFillna(c) == IF c = Null THEN Null ELSE Val(RoundHalfEven(c[1]))

\* valores_atualizados = ....fillna(0).round(0), one cell
ValoresAtualizados(c) == Val(RoundHalfEven(IF c = Null THEN 0 ELSE c[1]))

\* df_resultado.loc[condicao_ano, target_col_orcamento] = valores_atualizados
Atualizar(df, target, ano) ==
    [df EXCEPT !.rows = [i \in 1..Len(df.rows) |->
        IF CondicaoAno(df.rows[i], ano)
        THEN WithCell(df.rows[i], target,
                 ValoresAtualizados(df.rows[i].cells[coluna_gasto_temp]))
        ELSE df.rows[i]]]

\* df_resultado.drop(columns=[c], inplace=True)
Drop(df, c) ==
    [cols |-> df.cols \ {c},
     rows |-> [i \in 1..Len(df.rows) |-> WithoutCell(df.rows[i], c)]]

\* a mutant of LimparUnnamed: every column is kept
SemLimpar(df) == df

\* df.loc[:, ~df.columns.str.startswith('Unnamed')]
LimparUnnamed(df) ==
    LET keep == { c \in df.cols : ~IsUnnamed(c) }
    IN  [cols |-> keep,
         rows |-> [i \in 1..Len(df.rows) |->
                      [df.rows[i] EXCEPT !.cells = [k \in keep |-> df.rows[i].cells[k]]]]]

\* the name in cols that is the string f'Period {p}', as a set (empty if none)
TargetCol(df, p) == { c \in df.cols : Chars(c) = PeriodColName(p) }

---------------------------------------------------------------------------
(* Etapa 2: totals and balance per WBS *)

\* the sum of f over the indexes idx
RECURSIVE SomaIdx(_, _)
SomaIdx(f, idx) ==
    IF idx = {} THEN 0
    ELSE LET i == CHOOSE j \in idx : TRUE IN f[i] + SomaIdx(f, idx \ {i})

\* df_resultado[colunas_periodo].sum(axis=1) of one row: NaN counts as 0
RECURSIVE SomaLinha(_, _)
SomaLinha(row, colunas) ==
    IF colunas = <<>> THEN 0
    ELSE Skipna(row.cells[Head(colunas)]) + SomaLinha(row, Tail(colunas))

\* the indexes of the rows of the group of row i in groupby('WBS Element')
Grupo(df, i) == { j \in 1..Len(df.rows) : df.rows[j].wbs = df.rows[i].wbs }

\* a mutant of TotalAcumulado: the row's own periods only
AcumuladoDaLinha(df, colunas, i) == SomaLinha(df.rows[i], colunas)

\* groupby('WBS Element')['OrcamentoRealPorLinha'].transform('sum') at row i
TotalAcumulado(df, colunas, i) ==
    SomaIdx([j \in 1..Len(df.rows) |-> SomaLinha(df.rows[j], colunas)], Grupo(df, i))

\* groupby('WBS Element')['Total'].transform('sum') at row i
TotalOrcado(df, i) ==
    SomaIdx([j \in 1..Len(df.rows) |-> Skipna(df.rows[j].cells["Total"])], Grupo(df, i))

\* a mutant of Saldo: the operands are swapped
SaldoInvertido(orcado, acumulado) == acumulado - orcado

\* df_resultado['Total Orcado'] - df_resultado['Total Acumulado']
Saldo(orcado, acumulado) == orcado - acumulado

\* groupby('WBS Element')['Fiscal Year'].transform('max') at row i
MaxAnoPorWbs(df, i) ==
    CHOOSE y \in { df.rows[j].fy : j \in Grupo(df, i) } :
        \A j \in Grupo(df, i) : df.rows[j].fy <= y

\* a mutant of MaskNaoEMaxAno: <= for <
MaskAteMaxAno(fy, max_ano) == fy <= max_ano

\* mask_nao_e_max_ano = df_resultado['Fiscal Year'] < max_ano_por_wbs
MaskNaoEMaxAno(fy, max_ano) == fy < max_ano

ColunasDerivadas == {"Total Orcado", "Total Acumulado", "Saldo"}

\* lines 71-81: the three derived columns, nulled below the WBS's last year
ComTotais(df, colunas) ==
    [cols |-> df.cols \cup ColunasDerivadas,
     rows |-> [i \in 1..Len(df.rows) |->
        LET row == df.rows[i]
            orcado == TotalOrcado(df, i)
            acumulado == TotalAcumulado(df, colunas, i)
            mask == MaskNaoEMaxAno(row.fy, MaxAnoPorWbs(df, i))
            novo(k) == IF mask THEN Null
                       ELSE IF k = "Total Orcado" THEN Val(orcado)
                       ELSE IF k = "Total Acumulado" THEN Val(acumulado)
                       ELSE Val(Saldo(orcado, acumulado))
        IN  [row EXCEPT !.cells = [k \in (DOMAIN row.cells) \cup ColunasDerivadas |->
                IF k \in ColunasDerivadas THEN novo(k) ELSE row.cells[k]]]]]

\* a mutant of RetornoSemTotal: the partial table is returned
RetornoParcial(df) == <<df>>

\* line 75: return None
RetornoSemTotal(df) == None

---------------------------------------------------------------------------
(* The inputs *)

WBS == {"A", "B"}

Anos == {AnoPadrao - 1, AnoPadrao}

\* the sequences of at most n elements of S
SeqAte(S, n) == UNION { [1..k -> S] : k \in 0..n }

\* a budget row: Total is 100, every other column holds pv
LinhaOrcamento(wbs, fy, pv, cols) ==
    [wbs |-> wbs, fy |-> fy,
     cells |-> [c \in cols |-> IF c = "Total" THEN Val(100 * Escala) ELSE pv]]

ValoresOrcamento == {Null, Val(7 * Escala)}

LinhasOrcamento(cols) ==
    { LinhaOrcamento(w, y, pv, cols) : w \in WBS, y \in Anos, pv \in ValoresOrcamento }

\* the expenditure rows the tables are made of: 1.5, 2.25 and -1.5
LinhasGastos ==
    { [fy |-> AnoPadrao,     wbs |-> "A", period |-> 1, valor |-> 6],
      [fy |-> AnoPadrao,     wbs |-> "A", period |-> 1, valor |-> 9],
      [fy |-> AnoPadrao,     wbs |-> "A", period |-> 2, valor |-> -6],
      [fy |-> AnoPadrao - 1, wbs |-> "A", period |-> 1, valor |-> 9] }

\* the columns of the enumerated budget tables
ColunasTabelas == {"Period 1", "Period 2", "Total"}

\* the names a budget table's columns are drawn from
PoolColunas ==
    { "Period 1", "Period 2", "Period 10", "Period 3\n", "Period 1x",
      "period 1", "Total", "Unnamed: 0" }

\* the period ranges tried with the column sets; the widgets keep 1..12
Intervalos ==
    { <<PeriodoMin, 2>>, <<2, 10>>, <<PeriodoMin, PeriodoMax>>, <<2, PeriodoMin>> }

DfVazio == [cols |-> {}, rows |-> <<>>]

Parado ==
    /\ pc = "ui"
    /\ df_resultado = DfVazio
    /\ gastos_agrupados = {}
    /\ periodo_num = 0
    /\ colunas_periodo = <<>>
    /\ df_final = None
    /\ mensagem = ""

\* budget and expenditure tables of every shape, all three columns present
InitTabelas ==
    /\ \E rows \in SeqAte(LinhasOrcamento(ColunasTabelas), MaxLinhas) :
         orcamento_file = <<[cols |-> ColunasTabelas, rows |-> rows]>>
    /\ \E rows \in SeqAte(LinhasGastos, MaxGastos) : gastos_file = <<rows>>
    /\ ano_val \in Anos
    /\ p_ini_val = PeriodoMin
    /\ p_fim_val = 2
    /\ Parado

\* every column set of the pool, one budget table, missing uploads
InitColunas ==
    /\ \E cols \in SUBSET PoolColunas :
         orcamento_file \in
            { None,
              <<[cols |-> cols,
                 rows |-> << LinhaOrcamento("A", AnoPadrao - 1, Val(7 * Escala), cols),
                             LinhaOrcamento("A", AnoPadrao, Val(3 * Escala), cols) >>]>> }
    /\ gastos_file \in
         { None,
           << << [fy |-> AnoPadrao, wbs |-> "A", period |-> 1, valor |-> 6],
                 [fy |-> AnoPadrao, wbs |-> "A", period |-> 2, valor |-> 9] >> >> }
    /\ ano_val = AnoPadrao
    /\ \E r \in Intervalos : p_ini_val = r[1] /\ p_fim_val = r[2]
    /\ Parado

Init == InitTabelas \/ InitColunas

---------------------------------------------------------------------------
(* The button "Executar Analise" and processar_dados_streamlit *)

Fim(retorno, msg) ==
    /\ pc' = "fim"
    /\ df_final' = retorno
    /\ mensagem' = msg

\* line 159: one of the two files was not uploaded
ExecutarSemArquivos ==
    /\ pc = "ui"
    /\ orcamento_file = None \/ gastos_file = None
    /\ Fim(None, "warning_upload")
    /\ UNCHANGED <<orcamento_file, gastos_file, ano_val, p_ini_val, p_fim_val,
                   df_resultado, gastos_agrupados, periodo_num, colunas_periodo>>

\* line 121: the final period is before the initial one
ExecutarPeriodoInvalido ==
    /\ pc = "ui"
    /\ orcamento_file # None /\ gastos_file # None
    /\ p_fim_val < p_ini_val
    /\ Fim(None, "erro_periodo")
    /\ UNCHANGED <<orcamento_file, gastos_file, ano_val, p_ini_val, p_fim_val,
                   df_resultado, gastos_agrupados, periodo_num, colunas_periodo>>

\* lines 125, 23-48: the call; the tables are read, cleaned and grouped
ExecutarAnalise ==
    /\ pc = "ui"
    /\ orcamento_file # None /\ gastos_file # None
    /\ ~(p_fim_val < p_ini_val)
    /\ df_resultado' = LimparUnnamed(orcamento_file[1])
    /\ gastos_agrupados' = GroupBySum(gastos_file[1])
    /\ periodo_num' = p_ini_val
    /\ pc' = "loop"
    /\ UNCHANGED <<orcamento_file, gastos_file, ano_val, p_ini_val, p_fim_val,
                   colunas_periodo, df_final, mensagem>>

NoLoop == pc = "loop" /\ periodo_num <= p_fim_val

Proximo ==
    /\ periodo_num' = periodo_num + 1
    /\ UNCHANGED <<orcamento_file, gastos_file, ano_val, p_ini_val, p_fim_val,
                   pc, gastos_agrupados, colunas_periodo, df_final, mensagem>>

\* lines 52-53: no column 'Period p', continue
PeriodoSemColuna ==
    /\ NoLoop
    /\ TargetCol(df_resultado, periodo_num) = {}
    /\ UNCHANGED df_resultado
    /\ Proximo

\* lines 56-58, 61-64: expenditures in the period, merged
PeriodoComGastos ==
    /\ NoLoop
    /\ \E target \in TargetCol(df_resultado, periodo_num) :
         LET gastos_do_periodo == GastosDoPeriodo(gastos_agrupados, periodo_num, ano_val)
         IN  /\ gastos_do_periodo # {}
             /\ df_resultado' =
                  Drop(Atualizar(Merge(df_resultado, gastos_do_periodo), target, ano_val),
                       coluna_gasto_temp)
    /\ Proximo

\* lines 59-64: no expenditure in the period
PeriodoSemGastos ==
    /\ NoLoop
    /\ \E target \in TargetCol(df_resultado, periodo_num) :
         /\ GastosDoPeriodo(gastos_agrupados, periodo_num, ano_val) = {}
         /\ df_resultado' =
              Drop(Atualizar(ColunaNA(df_resultado), target, ano_val), coluna_gasto_temp)
    /\ Proximo

AposLoop == pc = "loop" /\ periodo_num > p_fim_val

Constantes == UNCHANGED <<orcamento_file, gastos_file, ano_val, p_ini_val, p_fim_val,
                          gastos_agrupados, periodo_num>>

\* lines 67-70: no column 'Period <digits>', a warning and the table as it is
SemColunasPeriodo ==
    /\ AposLoop
    /\ ColunasPeriodo(df_resultado) = <<>>
    /\ colunas_periodo' = <<>>
    /\ UNCHANGED df_resultado
    /\ Fim(<<df_resultado>>, "warning_sem_periodo")
    /\ Constantes

\* lines 71-75: no column 'Total', an error and no table
SemColunaTotal ==
    /\ AposLoop
    /\ ColunasPeriodo(df_resultado) # <<>>
    /\ "Total" \notin df_resultado.cols
    /\ colunas_periodo' = ColunasPeriodo(df_resultado)
    /\ UNCHANGED df_resultado
    /\ Fim(RetornoSemTotal(df_resultado), "erro_total")
    /\ Constantes

\* lines 71-82, 134-135: the totals, the table returned
CalcularTotais ==
    /\ AposLoop
    /\ ColunasPeriodo(df_resultado) # <<>>
    /\ "Total" \in df_resultado.cols
    /\ colunas_periodo' = ColunasPeriodo(df_resultado)
    /\ df_resultado' = ComTotais(df_resultado, colunas_periodo')
    /\ Fim(<<df_resultado'>>, "sucesso")
    /\ Constantes

Next ==
    \/ ExecutarSemArquivos
    \/ ExecutarPeriodoInvalido
    \/ ExecutarAnalise
    \/ PeriodoSemColuna
    \/ PeriodoComGastos
    \/ PeriodoSemGastos
    \/ SemColunasPeriodo
    \/ SemColunaTotal
    \/ CalcularTotais

Spec == Init /\ [][Next]_vars

---------------------------------------------------------------------------
(* What the claims speak about *)

\* processar_dados_streamlit was called and has returned
Chamada == pc = "fim" /\ mensagem \notin {"warning_upload", "erro_periodo"}

\* it returned a table
Retornou == pc = "fim" /\ df_final # None

\* the budget table as uploaded, and the table returned
Entrada == orcamento_file[1]

Saida == df_final[1]

\* the expenditure rows as uploaded with the key (fy, wbs, p)
GastosDe(fy, wbs, p) ==
    { j \in 1..Len(gastos_file[1]) : /\ gastos_file[1][j].fy = fy
                                     /\ gastos_file[1][j].wbs = wbs
                                     /\ gastos_file[1][j].period = p }

\* the sum of f over the set S
RECURSIVE SomaConj(_, _)
SomaConj(f, S) ==
    IF S = {} THEN 0
    ELSE LET x == CHOOSE y \in S : TRUE IN f[x] + SomaConj(f, S \ {x})

SomaGastos(fy, wbs, p) ==
    SomaConj([j \in 1..Len(gastos_file[1]) |-> gastos_file[1][j].valor], GastosDe(fy, wbs, p))

Abs(x) == IF x < 0 THEN -x ELSE x

\* v is an integer, and none is nearer to x
NearestInteger(v, x) == v % Escala = 0 /\ 2 * Abs(v - x) <= Escala

\* the columns of the uploaded budget named 'Period p', p in the range asked for
ColunasNoIntervalo ==
    { c \in Entrada.cols : \E p \in p_ini_val..p_fim_val : Chars(c) = PeriodColName(p) }

PeriodoDe(c) == CHOOSE p \in p_ini_val..p_fim_val : Chars(c) = PeriodColName(p)

\* the rows of row i's project, and the last fiscal year among them
Projeto(df, i) == { j \in 1..Len(df.rows) : df.rows[j].wbs = df.rows[i].wbs }

UltimoAno(df, i) == \A j \in Projeto(df, i) : df.rows[j].fy <= df.rows[i].fy

---------------------------------------------------------------------------
\* C1: every row of the target year with expenditures for (year, project, p)
\* holds in 'Period p' their sum rounded to the nearest integer.
C1_Agregacao ==
    Retornou =>
        \A c \in ColunasNoIntervalo : \A i \in 1..Len(Entrada.rows) :
            LET row == Entrada.rows[i]
                p == PeriodoDe(c)
            IN  (row.fy = ano_val /\ GastosDe(ano_val, row.wbs, p) # {}) =>
                    /\ i <= Len(Saida.rows)
                    /\ Saida.rows[i].cells[c] # Null
                    /\ NearestInteger(Saida.rows[i].cells[c][1],
                                      SomaGastos(ano_val, row.wbs, p))

\* two expenditure rows of one key were summed, and the sum was rounded
C1_Witness ==
    /\ Retornou
    /\ \E c \in ColunasNoIntervalo : \E i \in 1..Len(Entrada.rows) :
         /\ Entrada.rows[i].fy = ano_val
         /\ Cardinality(GastosDe(ano_val, Entrada.rows[i].wbs, PeriodoDe(c))) >= 2
         /\ Saida.rows[i].cells[c] # Entrada.rows[i].cells[c]
         /\ Saida.rows[i].cells[c] # Val(SomaGastos(ano_val, Entrada.rows[i].wbs, PeriodoDe(c)))

\* C2: every row of the target year without expenditure for (year, project, p)
\* holds 0 in 'Period p', whatever it held before.
C2_ZeroFill ==
    Retornou =>
        \A c \in ColunasNoIntervalo : \A i \in 1..Len(Entrada.rows) :
            LET row == Entrada.rows[i]
            IN  (row.fy = ano_val /\ GastosDe(ano_val, row.wbs, PeriodoDe(c)) = {}) =>
                    /\ i <= Len(Saida.rows)
                    /\ Saida.rows[i].cells[c] = Val(0)

\* a non-zero value was zeroed in a period where only another project spent,
\* and another in a period where nobody spent
C2_Witness ==
    /\ Retornou
    /\ \E c, d \in ColunasNoIntervalo : \E i \in 1..Len(Entrada.rows) :
         LET row == Entrada.rows[i]
         IN  /\ row.fy = ano_val
             /\ row.cells[c] = Val(7 * Escala) /\ Saida.rows[i].cells[c] = Val(0)
             /\ GastosDe(ano_val, row.wbs, PeriodoDe(c)) = {}
             /\ \E w \in WBS : GastosDe(ano_val, w, PeriodoDe(c)) # {}
             /\ row.cells[d] = Val(7 * Escala) /\ Saida.rows[i].cells[d] = Val(0)
             /\ \A w \in WBS : GastosDe(ano_val, w, PeriodoDe(d)) = {}

\* C3: a row of another fiscal year keeps every 'Period <n>' value.
C3_OutroAnoEstavel ==
    Retornou =>
        \A i \in 1..Len(Entrada.rows) :
            Entrada.rows[i].fy # ano_val =>
                /\ i <= Len(Saida.rows)
                /\ \A c \in { k \in Entrada.cols : MatchPeriod(k) } :
                      Saida.rows[i].cells[c] = Entrada.rows[i].cells[c]

\* a row of another year kept its value although its own year and project
\* have expenditures, while a row of the target year was rewritten
C3_Witness ==
    /\ Retornou
    /\ \E i, k \in 1..Len(Entrada.rows) : \E c \in ColunasNoIntervalo :
         /\ Entrada.rows[i].fy # ano_val
         /\ GastosDe(Entrada.rows[i].fy, Entrada.rows[i].wbs, PeriodoDe(c)) # {}
         /\ Saida.rows[i].cells[c] = Val(7 * Escala)
         /\ Entrada.rows[k].fy = ano_val
         /\ Saida.rows[k].cells[c] # Entrada.rows[k].cells[c]

\* C4: the three derived columns are non-null on the rows of the project's
\* last fiscal year and null on its other rows.
C4_Mascara ==
    mensagem = "sucesso" =>
        \A i \in 1..Len(Saida.rows) :
            IF UltimoAno(Saida, i)
            THEN \A k \in ColunasDerivadas : Saida.rows[i].cells[k] # Null
            ELSE \A k \in ColunasDerivadas : Saida.rows[i].cells[k] = Null

\* a project with two fiscal years: the earlier row masked, the later not
C4_Witness ==
    /\ mensagem = "sucesso"
    /\ \E i, j \in 1..Len(Saida.rows) :
         /\ Saida.rows[i].wbs = Saida.rows[j].wbs
         /\ Saida.rows[i].fy < Saida.rows[j].fy
         /\ Saida.rows[i].cells["Saldo"] = Null
         /\ Saida.rows[j].cells["Saldo"] # Null

\* C5 as stated: without a column 'Total' the call reports the missing
\* column and returns no table, whatever the other columns are.
C5_SemTotalSempreErro ==
    (Chamada /\ "Total" \notin Entrada.cols) =>
        (df_final = None /\ mensagem = "erro_total")

\* C5 amended: so it is when some column matches 'Period <digits>'.
C5_SemTotalComPeriodoErro ==
    (Chamada /\ "Total" \notin Entrada.cols
             /\ \E c \in Entrada.cols : MatchPeriod(c)) =>
        (df_final = None /\ mensagem = "erro_total")

\* the error was reported for a table with period columns and no 'Total'
C5_Witness ==
    /\ Chamada
    /\ "Total" \notin Entrada.cols
    /\ \E c \in Entrada.cols : MatchPeriod(c)
    /\ mensagem = "erro_total"
    /\ df_resultado # LimparUnnamed(Entrada)

\* C6: without any column 'Period <digits>' the call warns and returns the
\* budget table minus its 'Unnamed...' columns, with no derived column.
C6_SemPeriodoAviso ==
    (Chamada /\ ~\E c \in Entrada.cols : MatchPeriod(c)) =>
        /\ mensagem = "warning_sem_periodo"
        /\ df_final # None
        /\ Saida.cols = { c \in Entrada.cols : ~StartsWith(Chars(c), <<"U","n","n","a","m","e","d">>) }
        /\ Saida.cols \cap ColunasDerivadas = {}
        /\ Len(Saida.rows) = Len(Entrada.rows)
        /\ \A i \in 1..Len(Entrada.rows) :
              /\ Saida.rows[i].wbs = Entrada.rows[i].wbs
              /\ Saida.rows[i].fy = Entrada.rows[i].fy
              /\ DOMAIN Saida.rows[i].cells = Saida.cols
              /\ \A c \in Saida.cols : Saida.rows[i].cells[c] = Entrada.rows[i].cells[c]

\* the warning came for a table with an unnamed column, 'Total' and two
\* names that only resemble a period column
C6_Witness ==
    /\ Chamada
    /\ mensagem = "warning_sem_periodo"
    /\ {"Unnamed: 0", "Total", "period 1", "Period 1x"} \subseteq Entrada.cols
    /\ Len(Saida.rows) = 2

\* the expected 'Total Acumulado' of row i: every discovered period column of
\* every row of its project, as returned
AcumuladoEsperado(i) ==
    LET pares == { <<j, c>> \in Projeto(Saida, i) \X { k \in Entrada.cols : MatchPeriod(k) } : TRUE }
    IN  SomaConj([x \in pares |->
                    IF Saida.rows[x[1]].cells[x[2]] = Null THEN 0
                    ELSE Saida.rows[x[1]].cells[x[2]][1]], pares)

\* the expected 'Total Orcado' of row i: 'Total' over every row of its project
OrcadoEsperado(i) ==
    SomaConj([j \in 1..Len(Entrada.rows) |->
                 IF Entrada.rows[j].cells["Total"] = Null THEN 0
                 ELSE Entrada.rows[j].cells["Total"][1]], Projeto(Entrada, i))

\* C7: on an unmasked row 'Total Acumulado' is the sum of the period values
\* of all rows of the project, of every fiscal year.
C7_Acumulado ==
    mensagem = "sucesso" =>
        \A i \in 1..Len(Saida.rows) :
            UltimoAno(Saida, i) =>
                Saida.rows[i].cells["Total Acumulado"] = Val(AcumuladoEsperado(i))

\* the total of a last-year row holds the untouched values of an earlier row
C7_Witness ==
    /\ mensagem = "sucesso"
    /\ \E i, j \in 1..Len(Saida.rows) :
         /\ Saida.rows[i].wbs = Saida.rows[j].wbs
         /\ Saida.rows[j].fy < Saida.rows[i].fy
         /\ Saida.rows[i].fy = ano_val
         /\ Saida.rows[j].cells["Period 1"] = Val(7 * Escala)
         /\ Saida.rows[i].cells["Period 1"] # Val(0)
         /\ Saida.rows[i].cells["Total Acumulado"] = Val(AcumuladoEsperado(i))
         /\ AcumuladoEsperado(i) >
               Skipna(Saida.rows[i].cells["Period 1"]) + Skipna(Saida.rows[i].cells["Period 2"])

\* C8: on an unmasked row 'Saldo' is 'Total Orcado' minus 'Total Acumulado',
\* and 'Total Orcado' the sum of 'Total' over the project's rows.
C8_Saldo ==
    mensagem = "sucesso" =>
        \A i \in 1..Len(Saida.rows) :
            UltimoAno(Saida, i) =>
                /\ \A k \in ColunasDerivadas : Saida.rows[i].cells[k] # Null
                /\ Saida.rows[i].cells["Total Orcado"] = Val(OrcadoEsperado(i))
                /\ Saida.rows[i].cells["Saldo"][1] =
                      Saida.rows[i].cells["Total Orcado"][1]
                         - Saida.rows[i].cells["Total Acumulado"][1]

\* a balance over two rows of one project, with something spent
C8_Witness ==
    /\ mensagem = "sucesso"
    /\ \E i \in 1..Len(Saida.rows) :
         /\ UltimoAno(Saida, i)
         /\ Cardinality(Projeto(Saida, i)) = 2
         /\ Saida.rows[i].cells["Total Orcado"] = Val(200 * Escala)
         /\ Saida.rows[i].cells["Total Acumulado"] # Val(0)
         /\ Saida.rows[i].cells["Saldo"] # Saida.rows[i].cells["Total Orcado"]

\* the stage of the totals has computed colunas_periodo
Descobertas == pc = "fim" /\ mensagem \in {"sucesso", "erro_total"}

\* colunas_periodo holds each matching column once, and no other
SoAsQueCasam ==
    /\ { colunas_periodo[i] : i \in 1..Len(colunas_periodo) }
          = { c \in Entrada.cols : MatchPeriod(c) }
    /\ Len(colunas_periodo) = Cardinality({ c \in Entrada.cols : MatchPeriod(c) })

Sufixo(name) == CharsToInt(DigitsOf(Chars(name)))

\* C9 as stated: the discovered columns are in ascending order of the
\* numeric suffix.
C9_OrdemNumerica ==
    Descobertas =>
        /\ SoAsQueCasam
        /\ \A i, j \in 1..Len(colunas_periodo) :
              i < j => Sufixo(colunas_periodo[i]) <= Sufixo(colunas_periodo[j])

\* C9 amended: they are in ascending order of the strings themselves.
C9_OrdemLexicografica ==
    Descobertas =>
        /\ SoAsQueCasam
        /\ \A i, j \in 1..Len(colunas_periodo) :
              i < j => LexLess(Chars(colunas_periodo[i]), Chars(colunas_periodo[j]))

\* 'Period 10' was listed before 'Period 2'
C9_Witness ==
    /\ Descobertas
    /\ \E i, j \in 1..Len(colunas_periodo) :
         i < j /\ colunas_periodo[i] = "Period 10" /\ colunas_periodo[j] = "Period 2"

\* C10: the table returned has the rows of the budget table, each once and
\* in order, and no temporary column; the grouped expenditures hold one row
\* per (fiscal year, project, period).
C10_LinhasPreservadas ==
    /\ \A g, h \in gastos_agrupados :
          (g.fy = h.fy /\ g.wbs = h.wbs /\ g.period = h.period) => g = h
    /\ Retornou =>
          /\ Len(Saida.rows) = Len(Entrada.rows)
          /\ coluna_gasto_temp \notin Saida.cols
          /\ \A i \in 1..Len(Entrada.rows) :
                /\ Saida.rows[i].wbs = Entrada.rows[i].wbs
                /\ Saida.rows[i].fy = Entrada.rows[i].fy
                /\ coluna_gasto_temp \notin DOMAIN Saida.rows[i].cells
                /\ \A c \in Saida.cols \cap Entrada.cols :
                      MatchPeriod(c) \/ Saida.rows[i].cells[c] = Entrada.rows[i].cells[c]

\* two budget rows of one (project, year) went through a join with
\* expenditures of that key in both periods, two of them sharing a period
C10_Witness ==
    /\ Retornou
    /\ Len(Entrada.rows) = 2
    /\ Entrada.rows[1].wbs = Entrada.rows[2].wbs
    /\ Entrada.rows[1].fy = ano_val /\ Entrada.rows[2].fy = ano_val
    /\ \E p \in p_ini_val..p_fim_val :
          Cardinality(GastosDe(ano_val, Entrada.rows[1].wbs, p)) = 2
    /\ Saida.rows[1].cells["Period 1"] # Val(0)

=============================================================================
